---------------------------- MODULE Spec2Model ----------------------------
(***************************************************************************)
(* Model of the polymcp_toolkit shim (src/addon/polymcp_toolkit.py):       *)
(* expose_tools builds a tool registry (tool_map, tool_info) from a list   *)
(* of Python callables and serves three endpoints over it: health,          *)
(* list_tools and invoke_tool.                                             *)
(*                                                                         *)
(* A callable is an entry of Catalog: its __name__, its docstring, its     *)
(* signature.  What a callable does once its arguments are bound is an     *)
(* input of invoke_tool (Behaviours): the registry accepts any callable.   *)
(***************************************************************************)
EXTENDS Integers, Sequences, FiniteSets, TLC

\* ------------------------------------------------------------------ bounds
MaxTools == 3        \* longest list of callables passed to expose_tools
MaxArgs  == 2        \* most keys in the JSON body of an invoke request

\* ------------------------------------------------------ values of the model
Absent == "<absent>"                 \* a key that a dict does not hold
WS     == " "                        \* a whitespace character of a docstring

\* inspect.Parameter kinds that matter to func(**params)
Named  == "POSITIONAL_OR_KEYWORD"
VarPos == "VAR_POSITIONAL"
VarKw  == "VAR_KEYWORD"

NoAnnotation == [kind |-> "empty", name |-> Absent, repr |-> Absent]
NoDefault    == [kind |-> "empty", value |-> Absent, repr |-> Absent]

AnnInt      == [kind |-> "named",   name |-> "int",  repr |-> "<class 'int'>"]
AnnOptional == [kind |-> "unnamed", name |-> Absent, repr |-> "typing.Optional[str]"]
DefZero     == [kind |-> "json",    value |-> "0",    repr |-> "0"]
DefNone     == [kind |-> "json",    value |-> "None", repr |-> "None"]
DefObject   == [kind |-> "opaque",  value |-> "<object>", repr |-> "<object object at 0x1>"]

Param(n, k, a, d) == [name |-> n, kind |-> k, annotation |-> a, default |-> d]

(***************************************************************************)
(* The callables a caller may pass.  A docstring is the sequence of its    *)
(* paragraphs (what doc.split("\n\n") yields), a paragraph a sequence of   *)
(* characters; <<>> is a callable without docstring.  Callables 1 and 2    *)
(* share their __name__.                                                   *)
(***************************************************************************)
Catalog ==
  << [name   |-> "add",
      doc    |-> << <<"Add", WS>>, <<"Args">> >>,
      params |-> << Param("a", Named, AnnInt, NoDefault),
                    Param("b", Named, AnnInt, NoDefault) >>],
     [name   |-> "add",
      doc    |-> << <<WS, "Add2">> >>,
      params |-> << Param("a", Named, NoAnnotation, NoDefault),
                    Param("b", Named, AnnOptional, DefZero) >>],
     [name   |-> "div",
      doc    |-> << >>,
      params |-> << Param("b", Named, NoAnnotation, NoDefault),
                    Param("a", Named, NoAnnotation, DefObject) >>],
     [name   |-> "log",
      doc    |-> << <<"Log">> >>,
      params |-> << Param("a", Named, NoAnnotation, DefNone),
                    Param("args", VarPos, NoAnnotation, NoDefault),
                    Param("kwargs", VarKw, NoAnnotation, NoDefault) >>] >>

Funcs == 1..Len(Catalog)             \* references to the callables
NoFunc == 0                          \* no callable

ToolNames == {Catalog[f].name : f \in Funcs} \cup {"nonexistent"}
Keys      == {"a", "b", "k"}         \* keys a request body may hold

\* What a callable does when called with arguments that bind.
Behaviours == {"return_json", "return_unserializable", "raise_TypeError",
               "raise_ZeroDivisionError", "raise_KeyboardInterrupt"}

NotCalled == "not_called"            \* no callable was called

\* title and version: the defaults of expose_tools
title   == "MCP Server"
version == "1.0.0"

\* ----------------------------------------------------------------- helpers
BoundedSeq(S, n) == UNION {[1..k -> S] : k \in 0..n}

Range(s) == {s[j] : j \in 1..Len(s)}

IsInjective(s) == \A x, y \in 1..Len(s) : s[x] = s[y] => x = y

\* a request body: absent (None) or a JSON object, its keys in order
Bodies ==
  {[present |-> FALSE, keys |-> << >>]} \cup
  {[present |-> TRUE, keys |-> s] : s \in {t \in BoundedSeq(Keys, MaxArgs) : IsInjective(t)}}

VARIABLES
  pc,            \* "unbuilt" before expose_tools, "serving" after it
  tools,         \* the list of callables passed to expose_tools
  tool_map,      \* name -> callable
  tool_info,     \* list of descriptors
  request,       \* the last request handled
  response,      \* its response
  executed,      \* the callable whose body the last request ran, or NoFunc
  behaviour      \* what that callable did, or NotCalled

vars == <<pc, tools, tool_map, tool_info, request, response, executed, behaviour>>


\* ------------------------------------------------- Signature introspection
RECURSIVE LStrip(_)
LStrip(s) == IF s # << >> /\ Head(s) = WS THEN LStrip(Tail(s)) ELSE s

RECURSIVE RStrip(_)
RStrip(s) == IF s # << >> /\ s[Len(s)] = WS THEN RStrip(SubSeq(s, 1, Len(s) - 1)) ELSE s

Strip(s) == RStrip(LStrip(s))

\* _extract_docstring: "" without docstring, else the first paragraph, stripped
ExtractDocstring(f) ==
  IF Catalog[f].doc = << >> THEN << >> ELSE Strip(Catalog[f].doc[1])

\* the info dict of one parameter; Absent stands for a key the dict lacks
ParamInfo(p) ==
  [name     |-> p.name,
   required |-> (p.default.kind = "empty"),
   type     |-> CASE p.annotation.kind = "empty"   -> Absent
                  [] p.annotation.kind = "named"   -> p.annotation.name
                  [] p.annotation.kind = "unnamed" -> p.annotation.repr,
   default  |-> CASE p.default.kind = "empty"  -> Absent
                  [] p.default.kind = "json"   -> p.default.value
                  [] p.default.kind = "opaque" -> p.default.repr]

\* _extract_param_info: the parameters in declaration order, each with its info
ExtractParamInfo(f) ==
  [j \in 1..Len(Catalog[f].params) |-> ParamInfo(Catalog[f].params[j])]

\* the descriptor expose_tools appends for a callable
Describe(f) ==
  [name        |-> Catalog[f].name,
   description |-> ExtractDocstring(f),
   parameters  |-> ExtractParamInfo(f)]

\* ------------------------------------------------------------ Tool registry
EmptyMap == [n \in {} |-> NoFunc]

\* a registration that keeps the callable already held under the name
MapInsertFirstWins(m, name, f) ==
  [n \in DOMAIN m \cup {name} |-> IF n \in DOMAIN m THEN m[n] ELSE f]

\* tool_map[name] = func
MapInsert(m, name, f) ==
  [n \in DOMAIN m \cup {name} |-> IF n = name THEN f ELSE m[n]]

\* an append that leaves out the callables without docstring
InfoAppendDocumented(info, d) ==
  IF d.description = << >> THEN info ELSE Append(info, d)

\* tool_info.append(descriptor)
InfoAppend(info, d) == Append(info, d)

\* the loop of expose_tools over the remaining callables ts
RECURSIVE RegisterAll(_, _, _)
RegisterAll(ts, m, info) ==
  IF ts = << >>
  THEN [tool_map |-> m, tool_info |-> info]
  ELSE RegisterAll(Tail(ts),
                   MapInsert(m, Catalog[Head(ts)].name, Head(ts)),
                   InfoAppend(info, Describe(Head(ts))))

\* ------------------------------------------------------------------ binding
\* list(inspect.signature(func).parameters.keys())
ExpectedParameters(f) ==
  [j \in 1..Len(Catalog[f].params) |-> Catalog[f].params[j].name]

HasVarKw(f) == \E j \in 1..Len(Catalog[f].params) : Catalog[f].params[j].kind = VarKw

\* a binding that lets keys pass that name no parameter
BindsRequiredOnly(f, keys) ==
  \A j \in 1..Len(Catalog[f].params) :
     LET p == Catalog[f].params[j]
     IN (p.kind = Named /\ p.default.kind = "empty") => p.name \in Range(keys)

\* Python's binding of func(**params): every parameter without default that
\* a keyword can fill is supplied, and every key names such a parameter or
\* is taken by **kwargs.  When it fails, a TypeError is raised before the
\* body of func runs.
Binds(f, keys) ==
  /\ \A j \in 1..Len(Catalog[f].params) :
       LET p == Catalog[f].params[j]
       IN (p.kind = Named /\ p.default.kind = "empty") => p.name \in Range(keys)
  /\ \A k \in Range(keys) :
       \/ \E j \in 1..Len(Catalog[f].params) :
            Catalog[f].params[j].kind = Named /\ Catalog[f].params[j].name = k
       \/ HasVarKw(f)

\* ---------------------------------------------------------------- responses
HealthBody ==
  [status |-> "ok", server |-> title, version |-> version,
   tools |-> Cardinality(DOMAIN tool_map)]

ListToolsBody == [tools |-> tool_info, count |-> Len(tool_info)]

NotFoundDetail(tool_name) ==
  <<"Tool '", tool_name, "' not found. Use GET /mcp/list_tools to see available tools.">>

\* an unknown name answered as a bad request
NotFoundResponseAs400(tool_name) ==
  [endpoint |-> "invoke", status_code |-> 400, detail |-> NotFoundDetail(tool_name)]

NotFoundResponse(tool_name) ==
  [endpoint |-> "invoke", status_code |-> 404, detail |-> NotFoundDetail(tool_name)]

ParameterErrorResponse(tool_name, f, params, e) ==
  [endpoint |-> "invoke", status_code |-> 422,
   detail |-> [error |-> e, tool |-> tool_name,
               expected_parameters |-> ExpectedParameters(f),
               received_parameters |-> params]]

SuccessResponse(tool_name, result) ==
  [endpoint |-> "invoke", status_code |-> 200,
   body |-> [success |-> TRUE, tool |-> tool_name, result |-> result]]

RuntimeErrorResponse(tool_name, e, error_type) ==
  [endpoint |-> "invoke", status_code |-> 200,
   body |-> [success |-> FALSE, tool |-> tool_name,
             error |-> e, error_type |-> error_type]]

\* invoke_tool produced no response: the failure left it, raised to the
\* framework (status_code 0 stands for "no status set by invoke_tool")
UnhandledFault(tool_name, error_type) ==
  [endpoint |-> "invoke", status_code |-> 0,
   unhandled |-> error_type, tool |-> tool_name]

\* the try block of invoke_tool once func is called with bound arguments
CallOutcome(tool_name, f, params, b) ==
  CASE b = "return_json" ->
         SuccessResponse(tool_name, <<"result of", f>>)
    [] b = "return_unserializable" ->
         \* the dict is returned from inside the try; it is serialised after
         \* invoke_tool has returned, where no except clause applies
         UnhandledFault(tool_name, "SerializationError")
    [] b = "raise_TypeError" ->
         ParameterErrorResponse(tool_name, f, params, "TypeError in body")
    [] b = "raise_ZeroDivisionError" ->
         RuntimeErrorResponse(tool_name, "division by zero", "ZeroDivisionError")
    [] b = "raise_KeyboardInterrupt" ->
         \* not a subclass of Exception: neither except clause catches it
         UnhandledFault(tool_name, "KeyboardInterrupt")

\* ------------------------------------------------------------------ actions
Init ==
  /\ pc = "unbuilt"
  /\ tools \in BoundedSeq(Funcs, MaxTools)
  /\ tool_map = EmptyMap
  /\ tool_info = << >>
  /\ request = [endpoint |-> "none"]
  /\ response = [endpoint |-> "none"]
  /\ executed = NoFunc
  /\ behaviour = NotCalled

\* expose_tools(tools): builds the registry, then the endpoints exist
ExposeTools ==
  /\ pc = "unbuilt"
  /\ LET r == RegisterAll(tools, EmptyMap, << >>)
     IN /\ tool_map' = r.tool_map
        /\ tool_info' = r.tool_info
  /\ pc' = "serving"
  /\ UNCHANGED <<tools, request, response, executed, behaviour>>

\* endpoints that consume the descriptor list they serve
RegistryConsumed ==
  /\ tool_info' = IF tool_info = << >> THEN tool_info ELSE Tail(tool_info)
  /\ UNCHANGED <<pc, tools, tool_map>>

\* the endpoints only read the closure variables tool_map and tool_info
RegistryReadOnly == UNCHANGED <<pc, tools, tool_map, tool_info>>

Health ==
  /\ pc = "serving"
  /\ request' = [endpoint |-> "health"]
  /\ response' = [endpoint |-> "health", status_code |-> 200, body |-> HealthBody]
  /\ executed' = NoFunc
  /\ behaviour' = NotCalled
  /\ RegistryReadOnly

ListTools ==
  /\ pc = "serving"
  /\ request' = [endpoint |-> "list_tools"]
  /\ response' = [endpoint |-> "list_tools", status_code |-> 200, body |-> ListToolsBody]
  /\ executed' = NoFunc
  /\ behaviour' = NotCalled
  /\ RegistryReadOnly

\* what the callable does once called is its own choice, not the request's
InvokeTool(tool_name, body) ==
  /\ pc = "serving"
  /\ request' = [endpoint |-> "invoke", tool_name |-> tool_name, body |-> body]
  /\ IF tool_name \notin DOMAIN tool_map
     THEN /\ response' = NotFoundResponse(tool_name)
          /\ executed' = NoFunc
          /\ behaviour' = NotCalled
     ELSE LET func   == tool_map[tool_name]
              params == IF body.present THEN body.keys ELSE << >>
          IN IF ~Binds(func, params)
             THEN /\ response' = ParameterErrorResponse(tool_name, func, params,
                                                        "TypeError in binding")
                  /\ executed' = NoFunc
                  /\ behaviour' = NotCalled
             ELSE \E b \in Behaviours :
                    /\ response' = CallOutcome(tool_name, func, params, b)
                    /\ executed' = func
                    /\ behaviour' = b
  /\ RegistryReadOnly

Invoke == \E tool_name \in ToolNames, body \in Bodies : InvokeTool(tool_name, body)

Next == ExposeTools \/ Health \/ ListTools \/ Invoke

Spec == Init /\ [][Next]_vars

\* ============================================================== properties
\* the names of the callables passed to expose_tools
RegisteredNames == {Catalog[f].name : f \in Range(tools)}

\* the callable registered last under name n
LastFunc(n) ==
  LET last == CHOOSE j \in 1..Len(tools) :
                /\ Catalog[tools[j]].name = n
                /\ \A k \in 1..Len(tools) : Catalog[tools[k]].name = n => k <= j
  IN tools[last]

\* two callables of the list share a name, and they are different callables
HasDuplicateName ==
  \E x, y \in 1..Len(tools) :
     x < y /\ tools[x] # tools[y] /\ Catalog[tools[x]].name = Catalog[tools[y]].name

\* the outcome class of an invoke response
Outcome(r) ==
  CASE r.status_code = 404 -> "NotFound"
    [] r.status_code = 422 -> "ParameterError"
    [] r.status_code = 200 /\ r.body.success -> "Success"
    [] r.status_code = 200 /\ ~r.body.success -> "RuntimeError"
    [] OTHER -> "UnhandledFault"

Invoked == request.endpoint = "invoke"

\* the argument mapping the last invoke request bound
Params == IF request.body.present THEN request.body.keys ELSE << >>

\* C1: the tools sequence returned by list_tools holds exactly one descriptor
\* per unique name of the callables passed to expose_tools, and it is the
\* descriptor of the callable registered last under that name.
C1_OneDescriptorPerName ==
  response.endpoint = "list_tools" =>
    LET ts == response.body.tools
    IN /\ Len(ts) = Cardinality(RegisteredNames)
       /\ \A n \in RegisteredNames :
            /\ Cardinality({j \in 1..Len(ts) : ts[j].name = n}) = 1
            /\ \A j \in 1..Len(ts) : ts[j].name = n => ts[j] = Describe(LastFunc(n))

\* C2: every invoke_tool call ends in NotFound, ParameterError, RuntimeError
\* or Success; no failure of the callable leaves invoke_tool unhandled.
C2_FourOutcomes ==
  Invoked => Outcome(response) \in {"NotFound", "ParameterError", "RuntimeError", "Success"}

\* C3: a callable that runs to completion and returns a value that cannot be
\* serialised to JSON gives the RuntimeError outcome: status 200, success
\* false, error and error_type present.
C3_UnserializableIsRuntimeError ==
  (Invoked /\ executed # NoFunc /\ behaviour = "return_unserializable") =>
    /\ Outcome(response) = "RuntimeError"
    /\ response.body.error # Absent
    /\ response.body.error_type # Absent

\* the kind name of the failure a behaviour raises
RaisedKind(b) ==
  CASE b = "raise_TypeError" -> "TypeError"
    [] b = "raise_ZeroDivisionError" -> "ZeroDivisionError"
    [] b = "raise_KeyboardInterrupt" -> "KeyboardInterrupt"
    [] OTHER -> Absent

\* C4: when the arguments bind and the callable then fails in its own body,
\* whatever the kind of the failure, the response is 200 with success false
\* and the kind name; 422 is produced only when binding fails.
C4_BodyFailureIsRuntimeError ==
  Invoked =>
    /\ (executed # NoFunc /\ RaisedKind(behaviour) # Absent) =>
         /\ Outcome(response) = "RuntimeError"
         /\ response.body.error_type = RaisedKind(behaviour)
    /\ response.status_code = 422 => executed = NoFunc

\* C5: an invoke request for a name executes the callable registered last
\* under that name, never one registered earlier under it.
C5_LastRegisteredRuns ==
  (Invoked /\ executed # NoFunc) => executed = LastFunc(request.tool_name)

\* a state where a duplicated name was invoked and its callable ran
C5_Witness ==
  /\ Invoked /\ executed # NoFunc /\ HasDuplicateName
  /\ \E x, y \in 1..Len(tools) :
       /\ x < y /\ tools[x] # tools[y]
       /\ Catalog[tools[x]].name = request.tool_name
       /\ tools[y] = executed

\* the declared parameter names of callable f, in declaration order
DeclaredNames(f) == [j \in 1..Len(Catalog[f].params) |-> Catalog[f].params[j].name]

\* the mapping omits a parameter of f that has no default and is not variadic
OmitsRequired(f, keys) ==
  \E j \in 1..Len(Catalog[f].params) :
     /\ Catalog[f].params[j].kind \notin {VarPos, VarKw}
     /\ Catalog[f].params[j].default.kind = "empty"
     /\ Catalog[f].params[j].name \notin Range(keys)

\* the mapping holds a key that is not the name of a parameter of f
HasUnknownKey(f, keys) == \E k \in Range(keys) : k \notin Range(DeclaredNames(f))

\* the 422 response the claim describes, with the body of f not run
IsParameterErrorFor(f) ==
  /\ response.status_code = 422
  /\ response.detail.expected_parameters = DeclaredNames(f)
  /\ response.detail.received_parameters = Params
  /\ response.detail.tool = request.tool_name
  /\ executed = NoFunc

C7_UnknownNameIsNotFound ==
  (Invoked /\ request.tool_name \notin DOMAIN tool_map) =>
    /\ response.status_code = 404
    /\ response.detail = <<"Tool '", request.tool_name,
                           "' not found. Use GET /mcp/list_tools to see available tools.">>
    /\ executed = NoFunc

\* an unknown name invoked without body on a registry that holds tools
C7_Witness ==
  /\ Invoked /\ request.tool_name \notin DOMAIN tool_map
  /\ ~request.body.present
  /\ DOMAIN tool_map # {}
  /\ response.status_code = 404

\* C8: after construction the names with a descriptor are the names with a
\* callable reference.
C8_DescriptorNamesAreMapNames ==
  pc = "serving" => {tool_info[j].name : j \in 1..Len(tool_info)} = DOMAIN tool_map

\* a registry built from a list with a duplicated name and another tool
C8_Witness ==
  /\ pc = "serving" /\ HasDuplicateName
  /\ Cardinality(DOMAIN tool_map) >= 2
  /\ \E j \in 1..Len(tool_info) : tool_info[j].description = << >>

C10_CountsAgree ==
  /\ response.endpoint = "health" =>
       /\ response.body.tools = ListToolsBody.count
       /\ response.body.tools = Len(ListToolsBody.tools)
  /\ response.endpoint = "list_tools" =>
       /\ response.body.count = HealthBody.tools
       /\ response.body.count = Len(response.body.tools)

=============================================================================
